---- MODULE Spec2Model ----
(***************************************************************************)
(* Model of train.py: train_model() of the C3D video classifier trainer.   *)
(*                                                                         *)
(* The external collaborators are modelled by their contracts:             *)
(*  - the network is a deterministic function Forward of the parameter     *)
(*    state and the clip; the parameter state is a version number that     *)
(*    optimizer.step() advances;                                           *)
(*  - probabilities are integers out of ProbDen (0.5 is ProbDen/2);        *)
(*  - roc_auc_score / recall_score raise ValueError on label sets they     *)
(*    do not accept (one class only, more than two classes, or labels      *)
(*    other than 0/1 for the default pos_label);                           *)
(*  - the 101-class network is modelled on its first MaxClasses classes.   *)
(***************************************************************************)
EXTENDS Integers, Sequences, FiniteSets, TLC

VARIABLES
    cfg,              \* train_model's keyword arguments (immutable for the run)
    resume_epoch,     \* module constant resume_epoch of the running process
    data,             \* label/clip sequences of the three splits (<<>>: not read yet)
    files,            \* save_dir/models: checkpoint index -> saved dictionary
    dumps,            \* save_dir/predictions: <<phase, epoch>> -> data rows
    scalars,          \* entries of this run's SummaryWriter, in order
    model_params,     \* model.state_dict()
    opt_state,        \* optimizer.state_dict()
    grads,            \* backward passes accumulated in .grad since zero_grad
    scheduler,        \* scheduler.last_epoch
    training,         \* model.training
    epoch, phase, pc,
    order, pos,       \* the loader's sample order of this pass, samples consumed
    running_loss, running_corrects, running_probs, running_labels,
    metrics,          \* epoch_loss, epoch_acc, epoch_auc, ...
    events,           \* history: the side effects of this run, in order
    loaded,           \* history: index of the checkpoint file loaded (-1: none)
    run               \* history: number of processes started so far

vars == <<cfg, resume_epoch, data, files, dumps, scalars, model_params, opt_state,
          grads, scheduler, training, epoch, phase, pc, order, pos, running_loss,
          running_corrects, running_probs, running_labels, metrics, events,
          loaded, run>>

(******************************* bounds ************************************)
MaxEpochs == 2      \* num_epochs ranges over 1..MaxEpochs
MaxInterval == 2    \* save_epoch and test_interval range over 1..MaxInterval
MaxClasses == 3     \* classes of the network that are modelled
ProbDen == 2        \* probabilities are k/ProbDen
MaxRuns == 2        \* processes started on one run directory
EvalSize == 2       \* samples of the validation and of the test split

(************************** program constants ******************************)
batch_size == 4
TrainSize == batch_size + 1     \* smallest split that needs two batches
Shifts == {0, 1}                \* rotations the shuffling loader may pick

Min(a, b) == IF a < b THEN a ELSE b

NumClassesOf(dataset) ==
    IF dataset = "hmdb51" THEN 2 ELSE 101

ModelledClasses(nc) == Min(nc, MaxClasses)

\* labels that occur in the enumerated datasets: 0, 1 and the last modelled class
Labels(nc) == {0, 1, ModelledClasses(nc) - 1}

SplitSize(ph) == IF ph = "train" THEN TrainSize ELSE EvalSize

\* the enumerated splits are class-balanced: the classes present differ by at
\* most one sample
Balanced(t) ==
    \A a, b \in { t[i] : i \in DOMAIN t } :
        Cardinality({ i \in DOMAIN t : t[i] = a })
            <= Cardinality({ i \in DOMAIN t : t[i] = b }) + 1

\* a dataset lists its clips class folder by class folder
Splits(n, nc) ==
    { [i \in 1..n |-> [label |-> s[i], clip |-> i - 1]] :
        s \in { t \in [1..n -> Labels(nc)] :
                  /\ \A i \in 1..(n - 1) : t[i] <= t[i + 1]
                  /\ Balanced(t) } }

Rotate(s, k) ==
    [i \in 1..Len(s) |-> s[((i - 1 + k) % Len(s)) + 1]]

(************************ the network and the metrics **********************)
\* outputs = model(inputs); probs = nn.Softmax(dim=1)(outputs), for one clip:
\* a vector over the modelled classes that sums to ProbDen
Forward(params, clip, nc) ==
    LET h == params + clip
        p1 == h % (ProbDen + 1)
        rem == ProbDen - p1
        p2 == IF ModelledClasses(nc) = 2 THEN 0
              ELSE (h \div (ProbDen + 1)) % (rem + 1)
    IN  [c \in 1..ModelledClasses(nc) |->
            CASE c = 1 -> rem - p2
              [] c = 2 -> p1
              [] c = 3 -> p2
              [] OTHER -> 0]

\* torch.max(probs, 1)[1]: the index of the first maximal value
Argmax(p) ==
    (CHOOSE i \in 1..Len(p) :
        /\ \A j \in 1..Len(p) : p[j] <= p[i]
        /\ \A j \in 1..(i - 1) : p[j] < p[i]) - 1

\* probs[:, 1] of one row
PositiveProb(p) == p[2]

\* criterion(outputs, labels) of one sample: decreasing in the true class's probability
SampleLoss(p, label) == ProbDen - p[label + 1]

RECURSIVE SumSeq(_)
SumSeq(s) == IF s = <<>> THEN 0 ELSE Head(s) + SumSeq(Tail(s))

\* torch.sum(preds == labels.data) of a batch
BatchCorrects(ps, batch) ==
    SumSeq([i \in 1..Len(batch) |->
              IF Argmax(ps[i]) = batch[i].label THEN 1 ELSE 0])

\* loss.item() * inputs.size(0) of a batch
BatchLoss(ps, batch) ==
    SumSeq([i \in 1..Len(batch) |-> SampleLoss(ps[i], batch[i].label)])

LabelSet(labels) == { labels[i] : i \in 1..Len(labels) }

\* mutant: a one-class target yields a placeholder value instead of an error
Mut_RocAucUndefined(labels) == Cardinality(LabelSet(labels)) > 2

\* roc_auc_score raises: one class only, or a multiclass target with 1-d scores
RocAucUndefined(labels) == Cardinality(LabelSet(labels)) # 2

\* recall_score(average='binary', pos_label=1 or 0) raises unless the labels are 0/1
RecallRaises(labels) == ~(LabelSet(labels) \subseteq {0, 1})

\* [1 if p > 0.5 else 0 for p in running_probs]
Threshold(p) == IF 2 * p > ProbDen THEN 1 ELSE 0

Count(labels, probs, l, t) ==
    Cardinality({ i \in 1..Len(labels) : labels[i] = l /\ Threshold(probs[i]) = t })

\* recall_score(running_labels, thresholded, pos_label=l)
Recall(labels, probs, l) ==
    [num |-> Count(labels, probs, l, l),
     den |-> Count(labels, probs, l, 0) + Count(labels, probs, l, 1)]

\* roc_auc_score on binary labels: concordant pairs, ties counted half
RocAuc(labels, probs) ==
    LET hi == CHOOSE l \in LabelSet(labels) : \A m \in LabelSet(labels) : m <= l
        P == { i \in 1..Len(labels) : labels[i] = hi }
        N == { i \in 1..Len(labels) : labels[i] # hi }
    IN  [num |-> 2 * Cardinality({ x \in P \X N : probs[x[1]] > probs[x[2]] })
                 + Cardinality({ x \in P \X N : probs[x[1]] = probs[x[2]] }),
         den |-> 2 * Cardinality(P) * Cardinality(N)]

\* mutant: the first pair is consumed as if it were the header
Mut_CsvRows(labels, probs) ==
    [i \in 1..(Min(Len(labels), Len(probs)) - 1) |-> <<labels[i + 1], probs[i + 1]>>]

\* for label, prob in zip(labels, probs): writer.writerow([label, prob])
CsvRows(labels, probs) ==
    [i \in 1..Min(Len(labels), Len(probs)) |-> <<labels[i], probs[i]>>]

MetricNames == <<"loss", "acc", "auc", "sensitivity", "specificity">>

\* mutant: the AUC is not logged
Mut_ScalarEntries(ph, m, e) ==
    [i \in 1..4 |->
        [tag |-> <<ph, <<"loss", "acc", "sensitivity", "specificity">>[i]>>,
         value |-> m[<<"loss", "acc", "sensitivity", "specificity">>[i]],
         step |-> e]]

\* the five writer.add_scalar calls of a phase
ScalarEntries(ph, m, e) ==
    [i \in 1..5 |-> [tag |-> <<ph, MetricNames[i]>>, value |-> m[MetricNames[i]],
                     step |-> e]]

(*************************** control decisions *****************************)
\* range(resume_epoch, num_epochs) starts at
FirstEpoch(r) == r

\* mutant: the resume file is named by resume_epoch itself
Mut_ResumeFile(r) == r

\* saveName + '_epoch-' + str(resume_epoch - 1) + '.pth.tar'
ResumeFile(r) == r - 1

\* saveName + '_epoch-' + str(epoch) + '.pth.tar'
CheckpointFile(e) == e

\* 'epoch': epoch + 1
StoredEpoch(e) == e + 1

\* mutant: the interval is counted from epoch 0 instead of epoch 1
Mut_CheckpointDue(e, n) == e % n = 0

\* if epoch % save_epoch == (save_epoch - 1)
CheckpointDue(e, n) == e % n = n - 1

\* mutant: the useTest flag is not consulted
Mut_TestDue(useTest, e, n) == e % n = n - 1

\* if useTest and epoch % test_interval == (test_interval - 1)
TestDue(useTest, e, n) == useTest /\ e % n = n - 1

\* mutant: validation before training
Mut_Phases == <<"val", "train">>

\* for phase in ['train', 'val']
Phases == <<"train", "val">>

\* mutant: the schedule is stepped in every phase
Mut_StepsSchedule(ph) == TRUE

\* if phase == 'train': scheduler.step()
StepsSchedule(ph) == ph = "train"

\* mutant: the optimizer also steps on validation batches
Mut_UpdatesParams(ph) == TRUE

\* if phase == 'train': loss.backward(); optimizer.step()
UpdatesParams(ph) == ph = "train"

\* optimizer.zero_grad(): what is left of the accumulated gradients
ZeroGrad(g) == 0

\* len(DataLoader(..., batch_size=4)): the last batch may be short
NumBatches(n) == (n + batch_size - 1) \div batch_size

PhaseIndex(ph) == CHOOSE i \in 1..Len(Phases) : Phases[i] = ph

Event(kind, ph, e, params, accum) ==
    [kind |-> kind, phase |-> ph, epoch |-> e, params |-> params, accum |-> accum]

\* the batch the loader yields after pos samples
NextBatch(ord, p) == SubSeq(ord, p + 1, Min(p + batch_size, Len(ord)))

BatchProbs(params, batch, nc) ==
    [i \in 1..Len(batch) |-> Forward(params, batch[i].clip, nc)]

\* the split's files, read when the loader first iterates them
ReadSplit(ph) ==
    IF data[ph] = <<>> THEN Splits(SplitSize(ph), cfg.num_classes) ELSE {data[ph]}

EpochMetrics(loss, corrects, labels, probs, size) ==
    [loss |-> [num |-> loss, den |-> size],
     acc |-> [num |-> corrects, den |-> size],
     auc |-> RocAuc(labels, probs),
     sensitivity |-> Recall(labels, probs, 1),
     specificity |-> Recall(labels, probs, 0)]

NoMetrics == [loss |-> 0, acc |-> 0, auc |-> 0, sensitivity |-> 0, specificity |-> 0]

(******************************** Init *************************************)
Configs ==
    { [dataset |-> d, num_classes |-> NumClassesOf(d), num_epochs |-> n,
       save_epoch |-> s, useTest |-> u, test_interval |-> t] :
        d \in {"hmdb51", "ucf101"}, n \in 1..MaxEpochs, s \in 1..MaxInterval,
        u \in BOOLEAN, t \in 1..MaxInterval }

\* a fresh run (resume_epoch = 0) in a new, empty run directory
Init ==
    /\ cfg \in { c \in Configs : c.useTest \/ c.test_interval = 1 }
    /\ resume_epoch = 0
    /\ data = [train |-> <<>>, val |-> <<>>, test |-> <<>>]
    /\ files = <<>>
    /\ dumps = <<>>
    /\ scalars = <<>>
    /\ model_params = 0
    /\ opt_state = [step |-> 0]
    /\ grads = 0
    /\ scheduler = 0
    /\ training = TRUE
    /\ epoch = FirstEpoch(0)
    /\ phase = "none"
    /\ pc = "for_epoch"
    /\ order = <<>>
    /\ pos = 0
    /\ running_loss = 0
    /\ running_corrects = 0
    /\ running_probs = <<>>
    /\ running_labels = <<>>
    /\ metrics = NoMetrics
    /\ events = <<>>
    /\ loaded = -1
    /\ run = 1

(******************************* actions ***********************************)
persistent == <<cfg, data, files, dumps>>
learner == <<model_params, opt_state, grads>>
running == <<running_loss, running_corrects, running_probs, running_labels>>
process == <<resume_epoch, loaded, run>>

\* for epoch in range(resume_epoch, num_epochs): for phase in ['train', 'val']:
EnterEpoch ==
    /\ pc = "for_epoch"
    /\ epoch < cfg.num_epochs
    /\ phase' = Phases[1]
    /\ pc' = "phase_start"
    /\ UNCHANGED <<persistent, learner, running, process, scalars, scheduler,
                   training, epoch, order, pos, metrics, events>>

\* lines 105-116: reset the accumulators, step the schedule, set the mode
StartPhase ==
    /\ pc = "phase_start"
    /\ running_loss' = 0
    /\ running_corrects' = 0
    /\ running_probs' = <<>>
    /\ running_labels' = <<>>
    /\ scheduler' = IF StepsSchedule(phase) THEN scheduler + 1 ELSE scheduler
    /\ training' = (phase = "train")
    /\ \E split \in ReadSplit(phase) :
         /\ data' = [data EXCEPT ![phase] = split]
         /\ \E k \in (IF phase = "train" THEN Shifts ELSE {0}) :
              order' = Rotate(split, k)
    /\ pos' = 0
    /\ pc' = "batch"
    /\ UNCHANGED <<cfg, files, dumps, learner, process, scalars, epoch, phase,
                   metrics, events>>

\* lines 118-140: one batch of the train or validation loader
Batch ==
    /\ pc = "batch"
    /\ pos < Len(order)
    /\ LET batch == NextBatch(order, pos)
           ps == BatchProbs(model_params, batch, cfg.num_classes)
           zeroed == ZeroGrad(grads)
           accum == IF UpdatesParams(phase) THEN zeroed + 1 ELSE zeroed
       IN  /\ grads' = accum
           /\ model_params' =
                IF UpdatesParams(phase) THEN model_params + 1 ELSE model_params
           /\ opt_state' =
                IF UpdatesParams(phase) THEN [step |-> opt_state.step + 1]
                ELSE opt_state
           /\ running_loss' = running_loss + BatchLoss(ps, batch)
           /\ running_corrects' = running_corrects + BatchCorrects(ps, batch)
           /\ running_probs' =
                running_probs \o [i \in 1..Len(batch) |-> PositiveProb(ps[i])]
           /\ running_labels' =
                running_labels \o [i \in 1..Len(batch) |-> batch[i].label]
           /\ pos' = pos + Len(batch)
           /\ pc' = IF pos' < Len(order) THEN "batch" ELSE "metrics"
           /\ events' = Append(events,
                Event("batch", phase, epoch, model_params, accum))
    /\ UNCHANGED <<persistent, process, scalars, scheduler, training, epoch, phase,
                   order, metrics>>

\* lines 142-146 when roc_auc_score or recall_score raises: the process dies
MetricsRaise ==
    /\ pc = "metrics"
    /\ RocAucUndefined(running_labels) \/ RecallRaises(running_labels)
    /\ pc' = "fatal"
    /\ UNCHANGED <<persistent, learner, running, process, scalars, scheduler,
                   training, epoch, phase, order, pos, metrics, events>>

\* lines 142-146
ComputeMetrics ==
    /\ pc = "metrics"
    /\ ~(RocAucUndefined(running_labels) \/ RecallRaises(running_labels))
    /\ metrics' = EpochMetrics(running_loss, running_corrects, running_labels,
                               running_probs, Len(data[phase]))
    /\ pc' = "csv"
    /\ events' = Append(events, Event("metrics", phase, epoch, model_params, 0))
    /\ UNCHANGED <<persistent, learner, running, process, scalars, scheduler,
                   training, epoch, phase, order, pos>>

\* line 149: save_to_csv(epoch, phase, running_labels, running_probs, ...)
SaveToCsv ==
    /\ pc = "csv"
    /\ dumps' = (<<phase, epoch>> :> CsvRows(running_labels, running_probs)) @@ dumps
    /\ pc' = "scalars"
    /\ events' = Append(events, Event("csv", phase, epoch, model_params, 0))
    /\ UNCHANGED <<cfg, data, files, learner, running, process, scalars, scheduler,
                   training, epoch, phase, order, pos, metrics>>

\* lines 151-167: the five scalars of the phase, then the next phase
AddScalars ==
    /\ pc = "scalars"
    /\ scalars' = scalars \o ScalarEntries(phase, metrics, epoch)
    /\ events' = Append(events, Event("scalars", phase, epoch, model_params, 0))
    /\ IF PhaseIndex(phase) < Len(Phases)
         THEN /\ phase' = Phases[PhaseIndex(phase) + 1]
              /\ pc' = "phase_start"
         ELSE /\ phase' = "none"
              /\ pc' = "checkpoint"
    /\ UNCHANGED <<persistent, learner, running, process, scheduler, training,
                   epoch, order, pos, metrics>>

\* lines 169-175: torch.save
SaveCheckpoint ==
    /\ pc = "checkpoint"
    /\ CheckpointDue(epoch, cfg.save_epoch)
    /\ files' = (CheckpointFile(epoch) :>
                   [epoch |-> StoredEpoch(epoch), state_dict |-> model_params,
                    opt_dict |-> opt_state]) @@ files
    /\ events' = Append(events, Event("checkpoint", "none", epoch, model_params, 0))
    /\ pc' = "test"
    /\ UNCHANGED <<cfg, data, dumps, learner, running, process, scalars, scheduler,
                   training, epoch, phase, order, pos, metrics>>

SkipCheckpoint ==
    /\ pc = "checkpoint"
    /\ ~CheckpointDue(epoch, cfg.save_epoch)
    /\ pc' = "test"
    /\ UNCHANGED <<persistent, learner, running, process, scalars, scheduler,
                   training, epoch, phase, order, pos, metrics, events>>

\* lines 177-184
StartTest ==
    /\ pc = "test"
    /\ TestDue(cfg.useTest, epoch, cfg.test_interval)
    /\ training' = FALSE
    /\ running_loss' = 0
    /\ running_corrects' = 0
    /\ running_probs' = <<>>
    /\ running_labels' = <<>>
    /\ \E split \in ReadSplit("test") :
         /\ data' = [data EXCEPT !["test"] = split]
         /\ order' = split
    /\ pos' = 0
    /\ phase' = "test"
    /\ pc' = "test_batch"
    /\ UNCHANGED <<cfg, files, dumps, learner, process, scalars, scheduler, epoch,
                   metrics, events>>

\* the test pass is not due: on to the next epoch
SkipTest ==
    /\ pc = "test"
    /\ ~TestDue(cfg.useTest, epoch, cfg.test_interval)
    /\ epoch' = epoch + 1
    /\ pc' = "for_epoch"
    /\ UNCHANGED <<persistent, learner, running, process, scalars, scheduler,
                   training, phase, order, pos, metrics, events>>

\* lines 186-201: one batch of the test loader
TestBatch ==
    /\ pc = "test_batch"
    /\ pos < Len(order)
    /\ LET batch == NextBatch(order, pos)
           ps == BatchProbs(model_params, batch, cfg.num_classes)
       IN  /\ running_loss' = running_loss + BatchLoss(ps, batch)
           /\ running_corrects' = running_corrects + BatchCorrects(ps, batch)
           /\ running_probs' =
                running_probs \o [i \in 1..Len(batch) |-> PositiveProb(ps[i])]
           /\ running_labels' =
                running_labels \o [i \in 1..Len(batch) |-> batch[i].label]
           /\ pos' = pos + Len(batch)
           /\ pc' = IF pos' < Len(order) THEN "test_batch" ELSE "test_metrics"
           /\ events' = Append(events,
                Event("batch", "test", epoch, model_params, grads))
    /\ UNCHANGED <<persistent, learner, process, scalars, scheduler, training,
                   epoch, phase, order, metrics>>

\* lines 203-207 when roc_auc_score or recall_score raises
TestMetricsRaise ==
    /\ pc = "test_metrics"
    /\ RocAucUndefined(running_labels) \/ RecallRaises(running_labels)
    /\ pc' = "fatal"
    /\ UNCHANGED <<persistent, learner, running, process, scalars, scheduler,
                   training, epoch, phase, order, pos, metrics, events>>

\* lines 203-207
TestComputeMetrics ==
    /\ pc = "test_metrics"
    /\ ~(RocAucUndefined(running_labels) \/ RecallRaises(running_labels))
    /\ metrics' = EpochMetrics(running_loss, running_corrects, running_labels,
                               running_probs, Len(data["test"]))
    /\ pc' = "test_csv"
    /\ events' = Append(events, Event("metrics", "test", epoch, model_params, 0))
    /\ UNCHANGED <<persistent, learner, running, process, scalars, scheduler,
                   training, epoch, phase, order, pos>>

\* line 210: save_to_csv(epoch, 'test', ...)
TestSaveToCsv ==
    /\ pc = "test_csv"
    /\ dumps' = (<<"test", epoch>> :> CsvRows(running_labels, running_probs)) @@ dumps
    /\ pc' = "test_scalars"
    /\ events' = Append(events, Event("csv", "test", epoch, model_params, 0))
    /\ UNCHANGED <<cfg, data, files, learner, running, process, scalars, scheduler,
                   training, epoch, phase, order, pos, metrics>>

\* lines 212-221, then the next epoch
TestAddScalars ==
    /\ pc = "test_scalars"
    /\ scalars' = scalars \o ScalarEntries("test", metrics, epoch)
    /\ events' = Append(events, Event("scalars", "test", epoch, model_params, 0))
    /\ epoch' = epoch + 1
    /\ phase' = "none"
    /\ pc' = "for_epoch"
    /\ UNCHANGED <<persistent, learner, running, process, scheduler, training,
                   order, pos, metrics>>

\* line 223: writer.close()
CloseWriter ==
    /\ pc = "for_epoch"
    /\ epoch >= cfg.num_epochs
    /\ pc' = "done"
    /\ UNCHANGED <<persistent, learner, running, process, scalars, scheduler,
                   training, epoch, phase, order, pos, metrics, events>>

\* a later process with resume_epoch = r on the same run directory, lines 43-45
\* and 72-92: a new model, optimizer, scheduler and writer, then the load
ResumeRun ==
    /\ pc \in {"done", "fatal"}
    /\ run < MaxRuns
    /\ \E r \in 1..cfg.num_epochs :
         /\ resume_epoch' = r
         /\ run' = run + 1
         /\ scalars' = <<>>
         /\ events' = <<>>
         /\ scheduler' = 0
         /\ training' = TRUE
         /\ grads' = 0
         /\ phase' = "none"
         /\ order' = <<>>
         /\ pos' = 0
         /\ running_loss' = 0
         /\ running_corrects' = 0
         /\ running_probs' = <<>>
         /\ running_labels' = <<>>
         /\ metrics' = NoMetrics
         /\ epoch' = FirstEpoch(r)
         /\ IF ResumeFile(r) \in DOMAIN files
              THEN /\ model_params' = files[ResumeFile(r)].state_dict
                   /\ opt_state' = files[ResumeFile(r)].opt_dict
                   /\ loaded' = ResumeFile(r)
                   /\ pc' = "for_epoch"
              ELSE \* torch.load raises FileNotFoundError
                   /\ model_params' = 0
                   /\ opt_state' = [step |-> 0]
                   /\ loaded' = -1
                   /\ pc' = "fatal"
    /\ UNCHANGED persistent

Next ==
    \/ EnterEpoch \/ StartPhase \/ Batch \/ MetricsRaise \/ ComputeMetrics
    \/ SaveToCsv \/ AddScalars \/ SaveCheckpoint \/ SkipCheckpoint
    \/ StartTest \/ SkipTest \/ TestBatch \/ TestMetricsRaise
    \/ TestComputeMetrics \/ TestSaveToCsv \/ TestAddScalars
    \/ CloseWriter \/ ResumeRun

Spec == Init /\ [][Next]_vars

(***************************************************************************)
(* Properties                                                              *)
(***************************************************************************)
Idx(kind, ph, e) ==
    { i \in 1..Len(events) :
        events[i].kind = kind /\ events[i].phase = ph /\ events[i].epoch = e }

EpochsOfRun == resume_epoch..(cfg.num_epochs - 1)

\* the process died in the metrics of a phase (not in torch.load)
MetricsFatal == pc = "fatal" /\ phase # "none"

\* C1 as stated: a run that resumes from the checkpoint file saved at epoch k
\* (the file with index k, storing the parameters of the end of epoch k)
\* executes k as its first epoch.
C1_ResumeRepeatsSavedEpoch ==
    (loaded # -1 /\ events # <<>>) => events[1].epoch = loaded

\* C1 amended: the run that resumes from the checkpoint file saved at epoch k
\* executes k + 1 as its first epoch, which is the 'epoch' value stored in the file.
C1_ResumeContinuesAfterSavedEpoch ==
    (loaded # -1 /\ events # <<>>) =>
        /\ events[1].epoch = loaded + 1
        /\ events[1].epoch = files[loaded].epoch
        /\ events[1].kind = "batch" /\ events[1].phase = "train"
        /\ events[1].params = files[loaded].state_dict

C1_Witness ==
    /\ loaded = 0
    /\ Idx("batch", "train", 1) # {}
    /\ files[0].epoch = 1

\* the run got past the checkpoint step of epoch e
PastCheckpointStep(e) ==
    /\ Idx("scalars", "val", e) # {}
    /\ ~(pc = "checkpoint" /\ epoch = e)

\* C2: a checkpoint is written for epoch e iff (e + 1) is a multiple of the
\* interval, exactly once, to the file with index e, which holds the state of
\* the end of epoch e and of no other epoch.
C2_CheckpointCadence ==
    /\ \A e \in EpochsOfRun :
         /\ Cardinality(Idx("checkpoint", "none", e)) <= 1
         /\ Idx("checkpoint", "none", e) # {} =>
              /\ (e + 1) % cfg.save_epoch = 0
              /\ PastCheckpointStep(e)
              /\ e \in DOMAIN files
              /\ \A i \in Idx("checkpoint", "none", e) :
                   files[e].state_dict = events[i].params
         /\ (PastCheckpointStep(e) /\ (e + 1) % cfg.save_epoch = 0) =>
              Idx("checkpoint", "none", e) # {}
    /\ \A f \in DOMAIN files :
         /\ (f + 1) % cfg.save_epoch = 0
         /\ files[f].epoch = f + 1
         /\ files[f].state_dict = (f + 1) * NumBatches(TrainSize)
         /\ files[f].opt_dict.step = (f + 1) * NumBatches(TrainSize)
    /\ (pc = "done" /\ run = 1 /\ cfg.num_epochs = 1 /\ cfg.save_epoch = 1) =>
         DOMAIN files = {0}

C2_Witness ==
    /\ pc = "done"
    /\ cfg.save_epoch = 2
    /\ cfg.num_epochs = 2
    /\ DOMAIN files = {1}
    /\ Idx("checkpoint", "none", 1) # {}
    /\ Idx("checkpoint", "none", 0) = {}

TestScalars(e) ==
    { i \in 1..Len(scalars) : scalars[i].tag[1] = "test" /\ scalars[i].step = e }

\* C3: a test pass (dump and scalars) is produced at epoch e iff test
\* evaluation is enabled and (e + 1) is a multiple of the test interval; with
\* test evaluation disabled there is never a test dump nor a test scalar.
C3_TestCadence ==
    /\ \A e \in EpochsOfRun :
         LET due == cfg.useTest /\ (e + 1) % cfg.test_interval = 0
         IN  /\ (Idx("batch", "test", e) # {} \/ Idx("csv", "test", e) # {}
                   \/ TestScalars(e) # {}) => due
             /\ (e < epoch /\ due) =>
                  /\ Idx("csv", "test", e) # {}
                  /\ <<"test", e>> \in DOMAIN dumps
                  /\ Cardinality(TestScalars(e)) = 5
    /\ \A k \in DOMAIN dumps :
         k[1] = "test" => (cfg.useTest /\ (k[2] + 1) % cfg.test_interval = 0)
    /\ ~cfg.useTest =>
         /\ \A i \in 1..Len(scalars) : scalars[i].tag[1] # "test"
         /\ \A i \in 1..Len(events) : events[i].phase # "test"

C3_Witness ==
    /\ pc = "done"
    /\ cfg.useTest /\ cfg.test_interval = 2 /\ cfg.num_epochs = 2
    /\ <<"test", 1>> \in DOMAIN dumps
    /\ <<"test", 0>> \notin DOMAIN dumps
    /\ TestScalars(1) # {}

C3_WitnessDisabled ==
    pc = "done" /\ ~cfg.useTest /\ cfg.num_epochs = MaxEpochs /\ Len(scalars) > 0

SplitLabels(ph) == [i \in 1..Len(data[ph]) |-> data[ph][i].label]

ScalarsOf(ph, e) ==
    { i \in 1..Len(scalars) : scalars[i].tag[1] = ph /\ scalars[i].step = e }

\* nothing was produced for the failing phase, and nothing ran after its batches
DiedInPhase ==
    /\ ScalarsOf(phase, epoch) = {}
    /\ Idx("metrics", phase, epoch) = {}
    /\ Idx("csv", phase, epoch) = {}
    /\ events # <<>>
    /\ events[Len(events)] =
         [events[Len(events)] EXCEPT !.kind = "batch", !.phase = phase,
                                     !.epoch = epoch]

\* nothing is computed, dumped or logged for a split whose labels are one class
OneClassSplitsLogNothing ==
    \A ph \in {"train", "val", "test"} :
        (data[ph] # <<>> /\ Cardinality(LabelSet(SplitLabels(ph))) = 1) =>
            /\ \A i \in 1..Len(events) :
                 events[i].phase = ph => events[i].kind = "batch"
            /\ \A i \in 1..Len(scalars) : scalars[i].tag[1] # ph

\* the labels accumulated for a finished pass with one class only stop the run
SingleClassStops ==
    (/\ pc \notin {"phase_start", "batch", "test_batch", "for_epoch", "done"}
     /\ phase # "none"
     /\ Cardinality(LabelSet(running_labels)) = 1) => pc \in {"metrics", "test_metrics", "fatal"}

\* C4 as stated: labels of one class in a phase of epoch e end the run in that
\* phase with no scalar for it, no checkpoint written for epoch e, and nothing
\* run afterwards.
C4_FatalLeavesNoCheckpoint ==
    /\ OneClassSplitsLogNothing
    /\ SingleClassStops
    /\ MetricsFatal =>
         /\ DiedInPhase
         /\ Idx("checkpoint", "none", epoch) = {}

\* C4 amended: labels of one class in a phase of epoch e end the run in that
\* phase with no metrics, dump or scalar for it and nothing run afterwards; no
\* checkpoint is written for epoch e when the phase is train or val, while a
\* failing test pass comes after the checkpoint step, so the checkpoint of
\* epoch e has been written iff (e + 1) is a multiple of the interval.
C4_FatalInPhase ==
    /\ OneClassSplitsLogNothing
    /\ SingleClassStops
    /\ MetricsFatal =>
         /\ DiedInPhase
         /\ phase \in {"train", "val"} => Idx("checkpoint", "none", epoch) = {}
         /\ phase = "test" =>
              (Idx("checkpoint", "none", epoch) # {}
                 <=> (epoch + 1) % cfg.save_epoch = 0)

C4_Witness ==
    /\ MetricsFatal
    /\ phase = "test"
    /\ LabelSet(running_labels) = {0}
    /\ Len(running_labels) = EvalSize
    /\ Idx("checkpoint", "none", epoch) # {}
    /\ ScalarsOf("val", epoch) # {}

C4_WitnessVal ==
    /\ MetricsFatal
    /\ phase = "val"
    /\ LabelSet(running_labels) = {0}
    /\ ScalarsOf("train", epoch) # {}

\* the parameters the forward pass of the i-th sample of this pass saw
ParamsAtSample(i) ==
    IF phase = "train"
      THEN model_params - NumBatches(Len(order)) + ((i - 1) \div batch_size)
      ELSE model_params

\* C5: the dump of (e, p) has one row per sample of the split, (TrueLabel,
\* Probability) of the samples in the order the loader yielded them.
C5_DumpRows ==
    /\ \A k \in DOMAIN dumps : Len(dumps[k]) = SplitSize(k[1])
    /\ \A ph \in {"train", "val", "test"} :
         data[ph] # <<>> => Len(data[ph]) = SplitSize(ph)
    /\ pc \in {"scalars", "test_scalars"} =>
         /\ <<phase, epoch>> \in DOMAIN dumps
         /\ Len(dumps[<<phase, epoch>>]) = Len(order)
         /\ \A i \in 1..Len(order) :
              dumps[<<phase, epoch>>][i] =
                 <<order[i].label,
                   Forward(ParamsAtSample(i), order[i].clip, cfg.num_classes)[2]>>

C5_Witness ==
    /\ pc = "scalars"
    /\ phase = "train"
    /\ order # data["train"]
    /\ epoch = 1
    /\ Len(dumps[<<"train", 1>>]) = TrainSize

\* accuracy recomputed from a dump: rows where (Probability > 0.5) = (TrueLabel = 1)
DumpCorrect(rows) ==
    Cardinality({ i \in 1..Len(rows) : (2 * rows[i][2] > ProbDen) = (rows[i][1] = 1) })

\* C6: for every completed (epoch, phase), the accuracy recomputed from the
\* dump equals the logged accuracy (argmax over all classes = label), for 2
\* and for 101 classes and at a probability of exactly 0.5.
C6_DumpAccuracyIsLoggedAccuracy ==
    pc \in {"scalars", "test_scalars"} =>
        DumpCorrect(dumps[<<phase, epoch>>]) * metrics.acc.den
            = metrics.acc.num * Len(dumps[<<phase, epoch>>])

\* the two-class network alone: there the two accuracies do agree
DumpAccuracyTwoClasses ==
    (pc \in {"scalars", "test_scalars"} /\ cfg.num_classes = 2) =>
        DumpCorrect(dumps[<<phase, epoch>>]) * metrics.acc.den
            = metrics.acc.num * Len(dumps[<<phase, epoch>>])

TestRuns(e) == cfg.useTest /\ (e + 1) % cfg.test_interval = 0

\* the (epoch, phase) pairs an error-free run executes
ExecutedPairs ==
    { x \in EpochsOfRun \X {"train", "val", "test"} :
        x[2] = "test" => TestRuns(x[1]) }

\* C7: at the end of an error-free run the scalar log holds exactly the five
\* metrics of every executed (epoch, phase), under the phase's namespace and
\* the epoch's zero-based index, and nothing else: 15 entries and three dumps
\* for one epoch with test interval 1.
C7_ScalarLog ==
    pc = "done" =>
        /\ Len(scalars) = 5 * Cardinality(ExecutedPairs)
        /\ \A x \in ExecutedPairs : \A m \in 1..5 :
             Cardinality({ i \in 1..Len(scalars) :
                 scalars[i].tag = <<x[2], MetricNames[m]>>
                   /\ scalars[i].step = x[1] }) = 1
        /\ (/\ run = 1 /\ cfg.num_epochs = 1 /\ cfg.save_epoch = 1
            /\ cfg.useTest /\ cfg.test_interval = 1) =>
             /\ Len(scalars) = 15
             /\ DOMAIN dumps = {<<"train", 0>>, <<"val", 0>>, <<"test", 0>>}
             /\ DOMAIN files = {0}

C7_Witness ==
    /\ pc = "done" /\ run = 1
    /\ cfg.num_epochs = 1 /\ cfg.save_epoch = 1
    /\ cfg.useTest /\ cfg.test_interval = 1
    /\ Len(scalars) = 15

\* the train phase of the current epoch has begun
TrainPhaseBegun ==
    /\ pc \notin {"for_epoch", "done"}
    /\ ~(pc = "phase_start" /\ phase = "train")
    /\ ~(pc = "fatal" /\ phase = "none")

\* C8: the schedule is advanced once per executed epoch, at the start of its
\* train phase and before any train batch, never in a validation or test
\* pass: e - resume_epoch + 1 times once epoch e has begun training.
C8_ScheduleCadence ==
    /\ scheduler = (epoch - resume_epoch) + (IF TrainPhaseBegun THEN 1 ELSE 0)
    /\ (pc = "done" /\ resume_epoch <= cfg.num_epochs) =>
          scheduler = cfg.num_epochs - resume_epoch

C8_Witness ==
    /\ resume_epoch = 1
    /\ loaded = 0
    /\ pc = "test_batch"
    /\ epoch = 1
    /\ scheduler = 1

Step(kind, ph, e) == [kind |-> kind, phase |-> ph, epoch |-> e]

Repeat(x, n) == [i \in 1..n |-> x]

PassSteps(ph, e) ==
    Repeat(Step("batch", ph, e), NumBatches(SplitSize(ph)))
      \o <<Step("metrics", ph, e), Step("csv", ph, e), Step("scalars", ph, e)>>

\* the order of the steps of epoch e
EpochSteps(e) ==
    PassSteps("train", e) \o PassSteps("val", e)
      \o (IF (e + 1) % cfg.save_epoch = 0
            THEN <<Step("checkpoint", "none", e)>> ELSE <<>>)
      \o (IF TestRuns(e) THEN PassSteps("test", e) ELSE <<>>)

RECURSIVE RunSteps(_)
RunSteps(e) ==
    IF e >= cfg.num_epochs THEN <<>> ELSE EpochSteps(e) \o RunSteps(e + 1)

\* C9: the steps of a run occur in one fixed order: per epoch all train
\* batches, the train metrics, dump and scalars, all validation batches, the
\* validation metrics, dump and scalars, the checkpoint if due, the test pass
\* if due, and only then the next epoch.
C9_StepOrder ==
    LET want == RunSteps(resume_epoch)
    IN  /\ Len(events) <= Len(want)
        /\ \A i \in 1..Len(events) :
             Step(events[i].kind, events[i].phase, events[i].epoch) = want[i]
        /\ pc = "done" => Len(events) = Len(want)

C9_Witness ==
    /\ pc = "done" /\ run = 1
    /\ cfg.num_epochs = 2 /\ cfg.save_epoch = 1
    /\ cfg.useTest /\ cfg.test_interval = 1
    /\ Len(events) = 2 * (NumBatches(TrainSize) + 2 * NumBatches(EvalSize) + 10)

\* parameters at the start of this run
ParamsAtStart == IF loaded = -1 THEN 0 ELSE files[loaded].state_dict

TrainBatches == { i \in 1..Len(events) :
                    events[i].kind = "batch" /\ events[i].phase = "train" }

====
